---------------------------- MODULE Spec2Model ----------------------------
(***************************************************************************)
(* The tool abstraction and the structured-response parser of the Tools    *)
(* chapter (02_chapter_tools.ipynb): class Tool, the tools list and        *)
(* tools_map, extract_tool_use, extract_final_answer and the notebook      *)
(* cells that drive them.                                                  *)
(*                                                                         *)
(* Text that the regular expressions read (the model output and what is    *)
(* cut out of it) is a sequence of one-character strings.  Text that the   *)
(* program only formats (error messages, prompts, rendered tool lines) is  *)
(* a sequence of parts: the constant pieces of the f-string as records     *)
(* [lit |-> "..."], and every interpolated value as a record               *)
(* [text |-> ...] (a str) or [repr |-> ...] (any other object put through  *)
(* str()).  The text is the concatenation of its parts.                    *)
(***************************************************************************)
EXTENDS Integers, Sequences, FiniteSets, TLC

(***************************************************************************)
(* Characters                                                              *)
(***************************************************************************)
Lower == {"a","b","c","d","e","f","g","h","i","j","k","l","m",
          "n","o","p","q","r","s","t","u","v","w","x","y","z"}

Upper == {"A","B","C","D","E","F","G","H","I","J","K","L","M",
          "N","O","P","Q","R","S","T","U","V","W","X","Y","Z"}

Digit == {"0","1","2","3","4","5","6","7","8","9"}

\* The class \s of the patterns, which is also what str.strip() removes.
Whitespace == {" ", "\t", "\n", "\r", "\f"}

\* The class [a-zA-Z0-9_ ] of the tool name group.
NameChar == Lower \cup Upper \cup Digit \cup {"_", " "}

Min(S) == CHOOSE x \in S : \A y \in S : x <= y

Max(S) == CHOOSE x \in S : \A y \in S : y <= x

\* str.lstrip(): the text without its leading whitespace.
lstrip(s) ==
  LET keep == {i \in 1..Len(s) : s[i] \notin Whitespace}
  IN  IF keep = {} THEN << >> ELSE SubSeq(s, Min(keep), Len(s))

\* str.strip(): the text without its leading and trailing whitespace.
strip(s) ==
  LET keep == {i \in 1..Len(s) : s[i] \notin Whitespace}
  IN  IF keep = {} THEN << >> ELSE SubSeq(s, Min(keep), Max(keep))

\* The literal lit stands in o at position i.
IsAt(o, lit, i) ==
  /\ i >= 1
  /\ i + Len(lit) - 1 <= Len(o)
  /\ \A j \in 1..Len(lit) : o[i + j - 1] = lit[j]

\* The markers of the two patterns.
ThoughtMarker == <<"T","h","o","u","g","h","t",":"," ">>

ToolMarker == <<"T","o","o","l",":"," ">>

ToolInputMarker == <<"T","o","o","l"," ","I","n","p","u","t",":"," ">>

FinalAnswerMarker == <<"F","i","n","a","l"," ","A","n","s","w","e","r",":">>

(***************************************************************************)
(* Regular expressions (module re).  A pattern is the sequence of its      *)
(* pieces: a literal, a repetition of a character class (at least min      *)
(* times, greedy or lazy), the opening or the closing of a capture group,  *)
(* or the end of the text.                                                 *)
(***************************************************************************)
PLit(s) == [kind |-> "lit", text |-> s]

PRep(class, min, greedy) == [kind |-> "rep", class |-> class, min |-> min, greedy |-> greedy]

POpen(g) == [kind |-> "open", group |-> g]

PClose(g) == [kind |-> "close", group |-> g]

PEnd == [kind |-> "end"]

\* The character classes: "." (any character, with re.DOTALL) and [\s\S],
\* \s, \n, and [a-zA-Z0-9_ ].
InClass(c, class) ==
  CASE class = "any" -> TRUE
    [] class = "space" -> c \in Whitespace
    [] class = "newline" -> c = "\n"
    [] class = "name" -> c \in NameChar

\* The length of the longest run of characters of a class in o from position i.
RECURSIVE Run(_, _, _)
Run(o, i, class) ==
  IF i > Len(o) \/ ~InClass(o[i], class) THEN 0 ELSE 1 + Run(o, i + 1, class)

NoMatch == [matched |-> FALSE]

\* $ without re.MULTILINE: at the end, or before a newline that ends the text.
AtEnd(o, i) == i = Len(o) + 1 \/ (i = Len(o) /\ o[i] = "\n")

\* The match of the pieces p.. of pattern pat in o from position i, with the
\* group bounds caps recorded so far: the first one in the backtracking order of
\* the matcher.  A greedy repetition takes the longest run after which the rest of
\* the pattern matches, a lazy one the shortest.
RECURSIVE Match(_, _, _, _, _)
Match(pat, o, p, i, caps) ==
  IF p > Len(pat) THEN [matched |-> TRUE, caps |-> caps]
  ELSE LET piece == pat[p]
       IN  CASE piece.kind = "lit" ->
                  IF IsAt(o, piece.text, i)
                  THEN Match(pat, o, p + 1, i + Len(piece.text), caps)
                  ELSE NoMatch
             [] piece.kind = "open" ->
                  Match(pat, o, p + 1, i, [caps EXCEPT ![piece.group] = <<i, i>>])
             [] piece.kind = "close" ->
                  Match(pat, o, p + 1, i,
                        [caps EXCEPT ![piece.group] = <<caps[piece.group][1], i>>])
             [] piece.kind = "end" ->
                  IF AtEnd(o, i) THEN Match(pat, o, p + 1, i, caps) ELSE NoMatch
             [] piece.kind = "rep" ->
                  LET tries == {[k |-> k, m |-> Match(pat, o, p + 1, i + k, caps)] :
                                  k \in piece.min..Run(o, i, piece.class)}
                      good == {t \in tries : t.m.matched}
                  IN  IF good = {} THEN NoMatch
                      ELSE IF piece.greedy
                           THEN (CHOOSE t \in good : \A u \in good : u.k <= t.k).m
                           ELSE (CHOOSE t \in good : \A u \in good : t.k <= u.k).m

\* re.match(pattern, output): the match that starts at the first character.
re_match(pat, o) ==
  LET groups == {pat[p].group : p \in {q \in 1..Len(pat) : pat[q].kind = "open"}}
  IN  Match(pat, o, 1, 1, [g \in groups |-> <<0, 0>>])

\* re.search(pattern, output): the match from the leftmost position that has one.
search(pat, o) ==
  LET groups == {pat[p].group : p \in {q \in 1..Len(pat) : pat[q].kind = "open"}}
      tries == {[s |-> s, m |-> Match(pat, o, 1, s, [g \in groups |-> <<0, 0>>])] :
                  s \in 1..(Len(o) + 1)}
      good == {t \in tries : t.m.matched}
  IN  IF good = {} THEN NoMatch
      ELSE (CHOOSE t \in good : \A u \in good : t.s <= u.s).m

\* match.group(g)
group(o, match, g) == SubSeq(o, match.caps[g][1], match.caps[g][2] - 1)

\* The tool-use pattern with a lazy name group, ([a-zA-Z0-9_ ]+?).
ToolUsePatternLazyName ==
  << PRep("space", 0, TRUE), PLit(ThoughtMarker),
     POpen(1), PRep("any", 0, FALSE), PClose(1),
     PRep("newline", 1, TRUE), PLit(ToolMarker),
     POpen(2), PRep("name", 1, FALSE), PClose(2),
     PRep("any", 0, FALSE),
     PRep("newline", 1, TRUE), PLit(ToolInputMarker),
     PRep("any", 0, FALSE),
     POpen(3), PLit(<<"{">>), PRep("any", 0, TRUE), PLit(<<"}">>), PClose(3) >>

\* The tool-use pattern with a lazy input group, (\{.*?\}).
ToolUsePatternLazyInput ==
  << PRep("space", 0, TRUE), PLit(ThoughtMarker),
     POpen(1), PRep("any", 0, FALSE), PClose(1),
     PRep("newline", 1, TRUE), PLit(ToolMarker),
     POpen(2), PRep("name", 1, TRUE), PClose(2),
     PRep("any", 0, FALSE),
     PRep("newline", 1, TRUE), PLit(ToolInputMarker),
     PRep("any", 0, FALSE),
     POpen(3), PLit(<<"{">>), PRep("any", 0, FALSE), PLit(<<"}">>), PClose(3) >>

\* The tool-use pattern without the .*? after the name group.
ToolUsePatternNoFreeText ==
  << PRep("space", 0, TRUE), PLit(ThoughtMarker),
     POpen(1), PRep("any", 0, FALSE), PClose(1),
     PRep("newline", 1, TRUE), PLit(ToolMarker),
     POpen(2), PRep("name", 1, TRUE), PClose(2),
     PRep("newline", 1, TRUE), PLit(ToolInputMarker),
     PRep("any", 0, FALSE),
     POpen(3), PLit(<<"{">>), PRep("any", 0, TRUE), PLit(<<"}">>), PClose(3) >>

\* The tool-use pattern with a greedy gap between "Tool Input: " and the input
\* group, .* for .*?.
ToolUsePatternGreedyGap ==
  << PRep("space", 0, TRUE), PLit(ThoughtMarker),
     POpen(1), PRep("any", 0, FALSE), PClose(1),
     PRep("newline", 1, TRUE), PLit(ToolMarker),
     POpen(2), PRep("name", 1, TRUE), PClose(2),
     PRep("any", 0, FALSE),
     PRep("newline", 1, TRUE), PLit(ToolInputMarker),
     PRep("any", 0, TRUE),
     POpen(3), PLit(<<"{">>), PRep("any", 0, TRUE), PLit(<<"}">>), PClose(3) >>

\* The tool-use pattern with optional newlines between the thought and "Tool: ",
\* \n* for \n+.
ToolUsePatternOptionalNewline ==
  << PRep("space", 0, TRUE), PLit(ThoughtMarker),
     POpen(1), PRep("any", 0, FALSE), PClose(1),
     PRep("newline", 0, TRUE), PLit(ToolMarker),
     POpen(2), PRep("name", 1, TRUE), PClose(2),
     PRep("any", 0, FALSE),
     PRep("newline", 1, TRUE), PLit(ToolInputMarker),
     PRep("any", 0, FALSE),
     POpen(3), PLit(<<"{">>), PRep("any", 0, TRUE), PLit(<<"}">>), PClose(3) >>

\* r"\s*Thought: (.*?)\n+Tool: ([a-zA-Z0-9_ ]+).*?\n+Tool Input: .*?(\{.*\})"
ToolUsePattern ==
  << PRep("space", 0, TRUE), PLit(ThoughtMarker),
     POpen(1), PRep("any", 0, FALSE), PClose(1),
     PRep("newline", 1, TRUE), PLit(ToolMarker),
     POpen(2), PRep("name", 1, TRUE), PClose(2),
     PRep("any", 0, FALSE),
     PRep("newline", 1, TRUE), PLit(ToolInputMarker),
     PRep("any", 0, FALSE),
     POpen(3), PLit(<<"{">>), PRep("any", 0, TRUE), PLit(<<"}">>), PClose(3) >>

\* The final-answer pattern with a greedy thought group, (.*).
FinalAnswerPatternGreedyThought ==
  << PRep("space", 0, TRUE), PLit(ThoughtMarker),
     POpen(1), PRep("any", 0, TRUE), PClose(1),
     PRep("newline", 1, TRUE), PLit(FinalAnswerMarker),
     POpen(2), PRep("any", 0, TRUE), PRep("any", 0, FALSE), PClose(2),
     PEnd >>

\* The final-answer pattern with a lazy answer group that is not tied to the
\* end of the text, (.*?).
FinalAnswerPatternLazyAnswer ==
  << PRep("space", 0, TRUE), PLit(ThoughtMarker),
     POpen(1), PRep("any", 0, FALSE), PClose(1),
     PRep("newline", 1, TRUE), PLit(FinalAnswerMarker),
     POpen(2), PRep("any", 0, FALSE), PClose(2) >>

\* r"\s*Thought: (.*?)\n+Final Answer:([\s\S]*.*?)(?:$)"
FinalAnswerPattern ==
  << PRep("space", 0, TRUE), PLit(ThoughtMarker),
     POpen(1), PRep("any", 0, FALSE), PClose(1),
     PRep("newline", 1, TRUE), PLit(FinalAnswerMarker),
     POpen(2), PRep("any", 0, TRUE), PRep("any", 0, FALSE), PClose(2),
     PEnd >>

(***************************************************************************)
(* Formatted text.  Lit(s) is a constant piece of an f-string, Str(s) a    *)
(* str interpolated into it, Repr(v) any other object interpolated into it *)
(* (its str()).                                                            *)
(***************************************************************************)
Lit(s) == [lit |-> s]

Str(s) == [text |-> s]

Repr(v) == [repr |-> v]

\* The exception raised by a call, or the value it returned.
Raise(type, message) == [ok |-> FALSE, type |-> type, message |-> message]

Return(value) == [ok |-> TRUE, value |-> value]

\* Three backquotes, the code fence of the templates.
Fence == [backquotes |-> 3]

\* "You should respond with:\n(fence)\nThought: ...\n\nTool: ...\n\nTool Input: ...\n(fence)"
ToolUseTemplate ==
  << Lit("You should respond with:\n"), Fence, Lit("\n"),
     Lit("Thought: <thought process on how to respond to the prompt>\n\n"),
     Lit("Tool: <name of the tool to use>\n\n"),
     Lit("Tool Input: <input of the tool to use>\n"), Fence >>

\* "You should respond with:\n(fence)\nThought: ...\n\nFinal Answer: ...\n(fence)"
FinalAnswerTemplate ==
  << Lit("You should respond with:\n"), Fence, Lit("\n"),
     Lit("Thought: <thought process on how to respond to the prompt>\n\n"),
     Lit("Final Answer: <response to the prompt>\n"), Fence >>

\* The tool-use message without the response it is about.
ToolUseErrorMessageBare(output) ==
  << Lit("You made a mistake in your response: "), Lit("\n\n"),
     Lit("You need to correct your response\n\n") >> \o ToolUseTemplate

\* The message of the ValueError of extract_tool_use.
ToolUseErrorMessage(output) ==
  << Lit("You made a mistake in your response: "), Str(output), Lit("\n\n"),
     Lit("You need to correct your response\n\n") >> \o ToolUseTemplate

extract_tool_use(output) ==
  LET match == search(ToolUsePattern, output)
  IN  IF ~match.matched
      THEN Raise("ValueError", ToolUseErrorMessage(output))
      ELSE Return(<< strip(group(output, match, 1)),
                     strip(group(output, match, 2)),
                     strip(group(output, match, 3)) >>)

\* The final-answer message with the template of the other format.
FinalAnswerErrorMessageToolUse(output) ==
  << Lit("You made a mistake in your response: "), Str(output), Lit("\n\n"),
     Lit("Your need to correct your response\n\n") >> \o ToolUseTemplate

\* The message of the ValueError of extract_final_answer.
FinalAnswerErrorMessage(output) ==
  << Lit("You made a mistake in your response: "), Str(output), Lit("\n\n"),
     Lit("Your need to correct your response\n\n") >> \o FinalAnswerTemplate

extract_final_answer(output) ==
  LET match == search(FinalAnswerPattern, output)
  IN  IF ~match.matched
      THEN Raise("ValueError", FinalAnswerErrorMessage(output))
      ELSE Return(<< strip(group(output, match, 1)),
                     strip(group(output, match, 2)) >>)

(***************************************************************************)
(* Python values.  Every value is a record whose field names its type.     *)
(* A dict is a function from its keys (texts) to values; the order of its  *)
(* keys is not modelled.                                                   *)
(***************************************************************************)
None == [none |-> TRUE]

PyStr(s) == [str |-> s]

PyInt(n) == [int |-> n]

PyDict(d) == [dict |-> d]

PyDatetime(t) == [datetime |-> t]

\* A str built by an f-string or a join: its parts.
PyText(parts) == [parts |-> parts]

IsStr(v) == DOMAIN v = {"str"}

IsInt(v) == DOMAIN v = {"int"}

IsDict(v) == DOMAIN v = {"dict"}

EmptyDict == [k \in {} |-> None]

Digits == <<"0","1","2","3","4","5","6","7","8","9">>

DigitValue(c) == (CHOOSE i \in 1..10 : Digits[i] = c) - 1

\* int() of a text of decimal digits.
RECURSIVE StrToInt(_)
StrToInt(s) ==
  IF s = << >> THEN 0
  ELSE 10 * StrToInt(SubSeq(s, 1, Len(s) - 1)) + DigitValue(s[Len(s)])

IsDigits(s) == Len(s) >= 1 /\ \A i \in 1..Len(s) : s[i] \in Digit

LowerSeq == <<"a","b","c","d","e","f","g","h","i","j","k","l","m",
              "n","o","p","q","r","s","t","u","v","w","x","y","z">>

UpperSeq == <<"A","B","C","D","E","F","G","H","I","J","K","L","M",
              "N","O","P","Q","R","S","T","U","V","W","X","Y","Z">>

ToUpper(c) ==
  IF c \in Lower THEN UpperSeq[CHOOSE i \in 1..26 : LowerSeq[i] = c] ELSE c

(***************************************************************************)
(* Argument schemas (pydantic models).  A schema has a title, the class    *)
(* name, and its fields in declaration order; a field has a name, a type   *)
(* ("str" or "int"), is required or has a default, and may carry a         *)
(* description (None when absent).                                         *)
(***************************************************************************)
FieldNames(schema) == {schema.fields[i].name : i \in 1..Len(schema.fields)}

FieldOf(schema, name) ==
  schema.fields[CHOOSE i \in 1..Len(schema.fields) : schema.fields[i].name = name]

\* The title pydantic gives a field in its JSON schema: name.replace("_", " ").title()
Title(name) ==
  [i \in 1..Len(name) |->
     IF name[i] = "_" THEN " "
     ELSE IF i = 1 \/ name[i - 1] = "_" THEN ToUpper(name[i]) ELSE name[i]]

JsonTypeName(type) ==
  IF type = "str" THEN <<"s","t","r","i","n","g">>
  ELSE <<"i","n","t","e","g","e","r">>

\* One entry of model_json_schema()["properties"].
Property(f) ==
  LET keys == {"title", "type"}
                \cup (IF f.description # None THEN {"description"} ELSE {})
                \cup (IF ~f.required THEN {"default"} ELSE {})
  IN  PyDict([k \in keys |->
                CASE k = "title" -> PyStr(Title(f.name))
                  [] k = "type" -> PyStr(JsonTypeName(f.type))
                  [] k = "description" -> f.description
                  [] k = "default" -> f.default])

\* args_schema.model_json_schema()["properties"]
Properties(schema) ==
  PyDict([name \in FieldNames(schema) |-> Property(FieldOf(schema, name))])

\* The validation of one value against a field's type (pydantic's lax mode): a
\* str field takes a str; an int field takes an int, or a str of digits, which
\* it converts.
ValidateValue(f, v) ==
  IF f.type = "str"
  THEN IF IsStr(v) THEN Return(v) ELSE Raise("string_type", v)
  ELSE IF IsInt(v) THEN Return(v)
       ELSE IF IsStr(v)
            THEN IF IsDigits(v.str) THEN Return(PyInt(StrToInt(v.str)))
                 ELSE Raise("int_parsing", v)
            ELSE Raise("int_type", v)

\* The outcome for one field: its value, or the error of the field.
ValidateField(f, input) ==
  IF f.name \in DOMAIN input.dict THEN ValidateValue(f, input.dict[f.name])
  ELSE IF f.required THEN Raise("missing", input)
  ELSE Return(f.default)

\* args_schema.model_validate(tool_input): the model instance (a value for every
\* field of the schema; keys of the input that the schema does not declare are
\* ignored), or a ValidationError listing every failing field in field order.
\* An input that is not a dict is an error of the model as a whole.
model_validate(schema, input) ==
  IF ~IsDict(input)
  THEN Raise("ValidationError",
             [title |-> schema.title,
              errors |-> << [loc |-> << >>, type |-> "model_type", input |-> input] >>])
  ELSE
  LET n == Len(schema.fields)
      bad == {i \in 1..n : ~ValidateField(schema.fields[i], input).ok}
      RECURSIVE Errors(_)
      Errors(i) ==
        IF i > n THEN << >>
        ELSE (IF i \in bad
              THEN << [loc |-> schema.fields[i].name,
                       type |-> ValidateField(schema.fields[i], input).type,
                       input |-> ValidateField(schema.fields[i], input).message] >>
              ELSE << >>) \o Errors(i + 1)
  IN  IF bad # {}
      THEN Raise("ValidationError", [title |-> schema.title, errors |-> Errors(1)])
      ELSE Return([name \in FieldNames(schema) |->
                     ValidateField(FieldOf(schema, name), input).value])

\* result.model_dump(): a dict with every field of the schema.
model_dump(instance) == instance

(***************************************************************************)
(* The wrapped functions.  A function is named by a string; Signature      *)
(* gives the keyword parameters it accepts and the ones it requires.       *)
(***************************************************************************)
expression == <<"e","x","p","r","e","s","s","i","o","n">>

base == <<"b","a","s","e">>

exponent == <<"e","x","p","o","n","e","n","t">>

Signature(function) ==
  CASE function = "calculator" -> [params |-> {expression}, required |-> {expression}]
    [] function = "current_date" -> [params |-> {}, required |-> {}]
    [] function = "power" -> [params |-> {base, exponent}, required |-> {base}]

\* numexpr's evaluate(expression).item(), on the expressions of the model: sums
\* of single digits ("1+1"); any other text of digits and "+" is a syntax error.
RECURSIVE SumOfDigits(_)
SumOfDigits(e) ==
  IF Len(e) <= 1 THEN DigitValue(e[1])
  ELSE DigitValue(e[1]) + SumOfDigits(SubSeq(e, 3, Len(e)))

Evaluate(e) ==
  IF /\ Len(e) % 2 = 1
     /\ \A i \in 1..Len(e) : IF i % 2 = 1 THEN e[i] \in Digit ELSE e[i] = "+"
  THEN Return(PyInt(SumOfDigits(e)))
  ELSE Raise("SyntaxError", PyStr(e))

\* The body of a wrapped function on the keyword arguments it was given, at
\* clock reading now.
\*   calculator:   lambda expression: ne.evaluate(expression).item()
\*   current_date: lambda: datetime.now()
\*   power:        lambda base, exponent=2: base ** exponent
Body(function, kwargs, now) ==
  CASE function = "calculator" -> Evaluate(kwargs[expression].str)
    [] function = "current_date" -> Return(PyDatetime(now))
    [] function = "power" ->
         Return(PyInt(kwargs[base].int
                        ^ (IF exponent \in DOMAIN kwargs THEN kwargs[exponent].int ELSE 2)))

\* function(**kwargs): a TypeError when the keywords do not fit the signature,
\* else the outcome of the body.
Call(function, kwargs, now) ==
  LET sig == Signature(function)
  IN  IF ~(DOMAIN kwargs \subseteq sig.params /\ sig.required \subseteq DOMAIN kwargs)
      THEN Raise("TypeError", PyDict(kwargs))
      ELSE Body(function, kwargs, now)

(***************************************************************************)
(* class Tool: a record of function, name, description and args_schema     *)
(* (None when the tool takes no input).                                    *)
(***************************************************************************)
\* args returning the whole of model_json_schema() instead of its "properties".
args_whole_schema(self) ==
  IF self.args_schema = None THEN None
  ELSE PyDict([k \in {<<"p","r","o","p","e","r","t","i","e","s">>,
                      <<"t","i","t","l","e">>, <<"t","y","p","e">>} |->
                 IF k = <<"p","r","o","p","e","r","t","i","e","s">>
                 THEN Properties(self.args_schema)
                 ELSE IF k = <<"t","i","t","l","e">> THEN PyStr(self.args_schema.title)
                 ELSE PyStr(<<"o","b","j","e","c","t">>)])

\* Tool.args
args(self) ==
  IF self.args_schema = None THEN None ELSE Properties(self.args_schema)

\* parse_input that lets an input pass when all that is wrong with it is a
\* missing required field: it returns the empty mapping.
parse_input_missing_ok(self, tool_input) ==
  LET input_args == self.args_schema
  IN  IF input_args # None
      THEN LET result == model_validate(input_args, tool_input)
           IN  IF result.ok
               THEN Return(PyDict([key \in {k \in DOMAIN model_dump(result.value) :
                                              k \in DOMAIN tool_input.dict} |->
                                     result.value[key]]))
               ELSE IF \A i \in 1..Len(result.message.errors) :
                         result.message.errors[i].type = "missing"
                    THEN Return(PyDict(EmptyDict))
                    ELSE result
      ELSE Return(tool_input)

\* parse_input without the filter "if key in tool_input": every dumped field.
parse_input_dump(self, tool_input) ==
  LET input_args == self.args_schema
  IN  IF input_args # None
      THEN LET result == model_validate(input_args, tool_input)
           IN  IF ~result.ok THEN result
               ELSE Return(PyDict(model_dump(result.value)))
      ELSE Return(tool_input)

\* Tool.parse_input
parse_input(self, tool_input) ==
  LET input_args == self.args_schema
  IN  IF input_args # None
      THEN LET result == model_validate(input_args, tool_input)
           IN  IF ~result.ok THEN result
               ELSE Return(PyDict([key \in {k \in DOMAIN model_dump(result.value) :
                                              k \in DOMAIN tool_input.dict} |->
                                     result.value[key]]))
      ELSE Return(tool_input)

\* The text invoke returns when the validation fails.
InvokeErrorText(self, tool_input, error) ==
  << Lit("Could not run tool "), Str(self.name), Lit(" with input:\n"),
     Repr(tool_input),
     Lit("\n\n"),
     Lit("The error was:\n"), Repr(error),
     Lit("\n\n"),
     Lit("You need to correct your response"),
     Lit("\n\n"),
     Lit("Your <input of the tool to use> must be a JSON format with the keyword arguments of:\n"),
     Repr(args(self)) >>

\* invoke without the except clause: the ValidationError reaches the caller.
invoke_uncaught(self, tool_input, now) ==
  IF args(self) = None
  THEN [outcome |-> Call(self.function, EmptyDict, now),
        called |-> << [function |-> self.function, kwargs |-> EmptyDict] >>]
  ELSE LET parsed_input == parse_input(self, tool_input)
       IN  IF parsed_input.ok
           THEN [outcome |-> Call(self.function, parsed_input.value.dict, now),
                 called |-> << [function |-> self.function,
                                kwargs |-> parsed_input.value.dict] >>]
           ELSE [outcome |-> parsed_input, called |-> << >>]

\* invoke handing the input to the function of a tool without a schema too,
\* self.function(**tool_input).
invoke_pass_input(self, tool_input, now) ==
  LET parsed_input == parse_input(self, tool_input)
  IN  IF parsed_input.ok
      THEN IF IsDict(parsed_input.value)
           THEN [outcome |-> Call(self.function, parsed_input.value.dict, now),
                 called |-> << [function |-> self.function,
                                kwargs |-> parsed_input.value.dict] >>]
           ELSE [outcome |-> Raise("TypeError", parsed_input.value), called |-> << >>]
      ELSE IF parsed_input.type = "ValidationError"
           THEN [outcome |-> Return(PyText(InvokeErrorText(self, tool_input,
                                                          parsed_input))),
                 called |-> << >>]
           ELSE [outcome |-> parsed_input, called |-> << >>]

\* invoke that calls the function a second time when the first call raised.
invoke_retry(self, tool_input, now) ==
  LET call(kwargs) ==
        LET first == Call(self.function, kwargs, now)
            made == [function |-> self.function, kwargs |-> kwargs]
        IN  IF first.ok THEN [outcome |-> first, called |-> << made >>]
            ELSE [outcome |-> Call(self.function, kwargs, now),
                  called |-> << made, made >>]
  IN  IF args(self) = None
      THEN call(EmptyDict)
      ELSE LET parsed_input == parse_input(self, tool_input)
           IN  IF parsed_input.ok
               THEN call(parsed_input.value.dict)
               ELSE IF parsed_input.type = "ValidationError"
                    THEN [outcome |-> Return(PyText(InvokeErrorText(self, tool_input,
                                                                   parsed_input))),
                          called |-> << >>]
                    ELSE [outcome |-> parsed_input, called |-> << >>]

\* Tool.invoke at clock reading now: its outcome (the value returned or the
\* exception raised to the caller) and the calls of the wrapped function it made.
invoke(self, tool_input, now) ==
  IF args(self) = None
  THEN [outcome |-> Call(self.function, EmptyDict, now),
        called |-> << [function |-> self.function, kwargs |-> EmptyDict] >>]
  ELSE LET parsed_input == parse_input(self, tool_input)
       IN  IF parsed_input.ok
           THEN [outcome |-> Call(self.function, parsed_input.value.dict, now),
                 called |-> << [function |-> self.function,
                                kwargs |-> parsed_input.value.dict] >>]
           ELSE IF parsed_input.type = "ValidationError"
                THEN [outcome |-> Return(PyText(InvokeErrorText(self, tool_input,
                                                               parsed_input))),
                      called |-> << >>]
                ELSE [outcome |-> parsed_input, called |-> << >>]

\* Tool.__str__
__str__(self) ==
  << Lit("- Tool Name: "), Str(self.name),
     Lit(", Tool Description: "), Str(self.description),
     Lit(", Tool Input: "), Repr(args(self)) >>

(***************************************************************************)
(* The tools.  calculator and current_date are the notebook's; power is a  *)
(* tool whose schema has a field with a default.                           *)
(***************************************************************************)
Calculator ==
  [title |-> <<"C","a","l","c","u","l","a","t","o","r">>,
   fields |-> << [name |-> expression, type |-> "str", required |-> TRUE,
                  default |-> None,
                  description |-> PyStr(<<"A"," ","m","a","t","h"," ","e","x","p","r","e","s",
                      "s","i","o","n">>)] >>]

calculator ==
  [function |-> "calculator",
   name |-> <<"C","a","l","c","u","l","a","t","o","r">>,
   description |->
     <<"U","s","e"," ","t","h","i","s"," ","t","o","o","l"," ","w","h","e",
       "n"," ","y","o","u"," ","w","a","n","t"," ","t","o"," ","d","o"," ",
       "c","a","l","c","u","l","a","t","i","o","n","s">>,
   args_schema |-> Calculator]

current_date ==
  [function |-> "current_date",
   name |-> <<"C","u","r","r","e","n","t"," ","D","a","t","e">>,
   description |->
     <<"U","s","e"," ","t","h","i","s"," ","t","o","o","l"," ","t","o"," ",
       "a","c","c","e","s","s"," ","t","h","e"," ","c","u","r","r","e","n",
       "t"," ","l","o","c","a","l"," ","d","a","t","e"," ","a","n","d"," ",
       "t","i","m","e">>,
   args_schema |-> None]

Power ==
  [title |-> <<"P","o","w","e","r">>,
   fields |-> << [name |-> base, type |-> "int", required |-> TRUE,
                  default |-> None, description |-> None],
                 [name |-> exponent, type |-> "int", required |-> FALSE,
                  default |-> PyInt(2), description |-> None] >>]

power ==
  [function |-> "power",
   name |-> <<"P","o","w","e","r">>,
   description |-> <<"U","s","e"," ","t","h","i","s"," ","t","o","o","l"," ","t","o"," ",
       "r","a","i","s","e"," ","a"," ","n","u","m","b","e","r"," ","t","o",
       " ","a"," ","p","o","w","e","r">>,
   args_schema |-> Power]

(***************************************************************************)
(* json.loads (dirtyjson) on the texts of the model: an object whose keys  *)
(* are double-quoted strings and whose values are double-quoted strings    *)
(* without escapes, non-negative integers or objects.  Each operator       *)
(* returns the value read at position i and the position after it.         *)
(***************************************************************************)
JsonFail == [ok |-> FALSE]

SkipSpace(t, i) == i + Run(t, i, "space")

JsonString(t, i) ==
  LET closing == {j \in (i + 1)..Len(t) : t[j] = "\""}
  IN  IF i > Len(t) \/ t[i] # "\"" \/ closing = {} THEN JsonFail
      ELSE [ok |-> TRUE, value |-> PyStr(SubSeq(t, i + 1, Min(closing) - 1)),
            next |-> Min(closing) + 1]

JsonNumber(t, i) ==
  LET r == Max({k \in 0..(Len(t) + 1 - i) : \A j \in i..(i + k - 1) : t[j] \in Digit})
  IN  IF r = 0 THEN JsonFail
      ELSE [ok |-> TRUE, value |-> PyInt(StrToInt(SubSeq(t, i, i + r - 1))),
            next |-> i + r]

RECURSIVE JsonValue(_, _), JsonMembers(_, _, _)
\* The members of an object from position i (a key is expected there), added to
\* the members acc read so far; a later member replaces an earlier one of its key.
JsonMembers(t, i, acc) ==
  LET key == JsonString(t, i)
      colon == IF key.ok THEN SkipSpace(t, key.next) ELSE 0
      val == IF key.ok /\ colon <= Len(t) /\ t[colon] = ":"
             THEN JsonValue(t, SkipSpace(t, colon + 1)) ELSE JsonFail
      after == IF val.ok THEN SkipSpace(t, val.next) ELSE 0
      members == [k \in DOMAIN acc \cup {key.value.str} |->
                    IF k = key.value.str THEN val.value ELSE acc[k]]
  IN  IF ~val.ok \/ after > Len(t) THEN JsonFail
      ELSE IF t[after] = "}"
           THEN [ok |-> TRUE, value |-> PyDict(members), next |-> after + 1]
      ELSE IF t[after] = ","
           THEN JsonMembers(t, SkipSpace(t, after + 1), members)
      ELSE JsonFail

JsonValue(t, i) ==
  IF i > Len(t) THEN JsonFail
  ELSE IF t[i] = "\"" THEN JsonString(t, i)
  ELSE IF t[i] \in Digit THEN JsonNumber(t, i)
  ELSE IF t[i] = "{"
       THEN LET j == SkipSpace(t, i + 1)
            IN  IF j <= Len(t) /\ t[j] = "}"
                THEN [ok |-> TRUE, value |-> PyDict(EmptyDict), next |-> j + 1]
                ELSE JsonMembers(t, j, EmptyDict)
  ELSE JsonFail

\* json.loads(s): the decoded value, or the error of the decoder.  A value that
\* is not a text (a dict that an earlier run of the cell left) cannot be decoded.
loads(s) ==
  IF ~IsStr(s) THEN Raise("AttributeError", s)
  ELSE LET t == s.str
           v == JsonValue(t, SkipSpace(t, 1))
       IN  IF v.ok /\ SkipSpace(t, v.next) = Len(t) + 1 THEN Return(v.value)
           ELSE Raise("Error", s)

(***************************************************************************)
(* The response formats that the system prompt asks of the model.          *)
(***************************************************************************)
\* "Thought: <thought>\n\nTool: <name>\n\nTool Input: <input>"
ToolUseText(t, n, j) ==
  ThoughtMarker \o t \o <<"\n", "\n">> \o ToolMarker \o n \o <<"\n", "\n">>
    \o ToolInputMarker \o j

\* "Thought: <thought>\n\nFinal Answer: <answer>"
FinalAnswerText(t, a) ==
  ThoughtMarker \o t \o <<"\n", "\n">> \o FinalAnswerMarker \o <<" ">> \o a

(***************************************************************************)
(* Bounded texts.  A text is put together from at most n tokens; a token   *)
(* is a character or a marker.                                             *)
(***************************************************************************)
MaxThoughtTokens == 3

MaxNameLen == 3

MaxJsonTokens == 2

MaxAnswerTokens == 3

MaxInvokes == 2

MaxFrameTokens == 2

MaxFreeTokens == 2

MaxPrefixTokens == 2

RECURSIVE Flatten(_)
Flatten(ts) == IF ts = << >> THEN << >> ELSE ts[1] \o Flatten(Tail(ts))

\* The texts of at most n tokens of T.
Texts(T, n) == {Flatten(ts) : ts \in UNION {[1..k -> T] : k \in 0..n}}

Trimmed(s) == strip(s) = s

\* The text s holds the text part somewhere.
Contains(s, part) == \E i \in 1..(Len(s) - Len(part) + 1) : IsAt(s, part, i)

ThoughtTokens ==
  { <<"a">>, <<" ">>, <<"\n">>, <<"{">>, <<"}">>,
    <<"\n">> \o ToolMarker, <<"\n">> \o FinalAnswerMarker }

Thoughts == {t \in Texts(ThoughtTokens, MaxThoughtTokens) : Trimmed(t)}

\* Tool names as a model may write them: name characters, and "-".
Names == Texts({<<"a">>, <<"_">>, <<" ">>, <<"-">>}, MaxNameLen) \ {<< >>}

Jsons ==
  {<<"{">> \o j \o <<"}">> :
     j \in Texts({<<"a">>, <<"{">>, <<"}">>, <<"\n">>}, MaxJsonTokens)}

Answers ==
  Texts({<<"a">>, <<" ">>, <<"\n">>, <<"\n">> \o FinalAnswerMarker}, MaxAnswerTokens)

\* Text between the marker "Tool Input: " and the input, and text after the input.
Befores == Texts({<<"a">>, <<"\n">>, <<"{">>}, MaxFrameTokens)

Afters == Texts({<<"a">>, <<"\n">>, <<"{">>, <<"}">>}, MaxFrameTokens)

\* Text between the tool name and the newlines before "Tool Input: ".
FreeTexts ==
  Texts({<<"a">>, <<" ">>, <<"-">>, <<"\n">>, <<"{">>, <<"\n">> \o ToolInputMarker},
        MaxFreeTokens)

\* Thoughts that quote the tool-use format: a "Tool: " line, a "Tool Input: "
\* line and a brace-delimited substring, in any order.
QuotingThoughts ==
  Texts({ <<"a">>, <<"{", "a", "}">>, <<"\n">> \o ToolMarker \o <<"a">>,
          <<"\n">> \o ToolInputMarker }, MaxThoughtTokens)

BaseThought == <<"a">>

BaseName == <<"a">>

BaseJson == <<"{", "}">>

NestedJson == <<"{", "{", "}", "}">>

BaseAnswer == <<"a">>

\* Thoughts of plain words and line breaks.
PlainThoughts ==
  {t \in Texts({<<"a">>, <<" ">>, <<"\n">>}, MaxThoughtTokens) : Trimmed(t)}

ToLower(c) ==
  IF c \in Upper THEN LowerSeq[CHOOSE i \in 1..26 : UpperSeq[i] = c] ELSE c

\* A marker as a model may miswrite it: in capitals, in small letters, with the
\* case of its first letter changed, or with its second letter left out.
Variants(marker) ==
  { [i \in 1..Len(marker) |-> ToUpper(marker[i])],
    [i \in 1..Len(marker) |-> ToLower(marker[i])],
    <<ToLower(marker[1])>> \o Tail(marker),
    <<marker[1]>> \o Tail(Tail(marker)) } \ {marker}

\* What a model may write between the thought and the next marker in place of
\* the line break.
NoNewlines == {<< >>, <<" ">>}

Newlines == <<"\n", "\n">>

\* Responses of either format with one marker miswritten, or with no line break
\* after the thought.
AlteredInputs ==
  {[kind |-> "altered", format |-> f, thought |-> t,
    m1 |-> v, sep |-> Newlines,
    m2 |-> IF f = "tool_use" THEN ToolMarker ELSE FinalAnswerMarker,
    m3 |-> ToolInputMarker] :
     f \in {"tool_use", "final_answer"}, t \in PlainThoughts,
     v \in Variants(ThoughtMarker)}
  \cup {[kind |-> "altered", format |-> "tool_use", thought |-> t,
         m1 |-> ThoughtMarker, sep |-> Newlines, m2 |-> v, m3 |-> ToolInputMarker] :
          t \in PlainThoughts, v \in Variants(ToolMarker)}
  \cup {[kind |-> "altered", format |-> "tool_use", thought |-> t,
         m1 |-> ThoughtMarker, sep |-> Newlines, m2 |-> ToolMarker, m3 |-> v] :
          t \in PlainThoughts, v \in Variants(ToolInputMarker)}
  \cup {[kind |-> "altered", format |-> "final_answer", thought |-> t,
         m1 |-> ThoughtMarker, sep |-> Newlines, m2 |-> v, m3 |-> ToolInputMarker] :
          t \in PlainThoughts, v \in Variants(FinalAnswerMarker)}
  \cup {[kind |-> "altered", format |-> f, thought |-> t,
         m1 |-> ThoughtMarker, sep |-> s,
         m2 |-> IF f = "tool_use" THEN ToolMarker ELSE FinalAnswerMarker,
         m3 |-> ToolInputMarker] :
          f \in {"tool_use", "final_answer"}, t \in PlainThoughts, s \in NoNewlines}

\* The response text of an altered input.
AlteredText(g) ==
  IF g.format = "tool_use"
  THEN g.m1 \o g.thought \o g.sep \o g.m2 \o BaseName \o Newlines \o g.m3 \o BaseJson
  ELSE g.m1 \o g.thought \o g.sep \o g.m2 \o <<" ">> \o BaseAnswer

\* Text that a model may write before "Thought: ": words, blanks, braces, a
\* marker without its blank, lines of the formats.
Prefixes ==
  Texts({ <<"a">>, <<" ">>, <<"\n">>, <<"T","h","o","u","g","h","t",":">>,
          <<"\n">> \o ToolMarker \o <<"a">>, <<"\n">> \o FinalAnswerMarker },
        MaxPrefixTokens)

\* The pieces of a well-formed response of each format.
ToolUseSegments ==
  << ThoughtMarker, BaseThought, <<"\n", "\n">>, ToolMarker, BaseName, <<"\n", "\n">>,
     ToolInputMarker, BaseJson >>

FinalAnswerSegments ==
  << ThoughtMarker, BaseThought, <<"\n", "\n">>, FinalAnswerMarker, <<" ", "a">> >>

\* The sequence segs without its i-th element.
Drop(segs, i) == SubSeq(segs, 1, i - 1) \o SubSeq(segs, i + 1, Len(segs))

\* The responses that are given a prefix: the well-formed one of each format,
\* one with two thoughts, and the ones with a piece left out.
PrefixedBases ==
  { ToolUseText(BaseThought, BaseName, BaseJson),
    FinalAnswerText(BaseThought, BaseAnswer),
    ThoughtMarker \o <<"a", "\n">> \o FinalAnswerText(BaseThought, BaseAnswer),
    ThoughtMarker \o <<"a", " ">> \o ToolUseText(BaseThought, BaseName, BaseJson) }
  \cup {Flatten(Drop(ToolUseSegments, i)) : i \in 1..Len(ToolUseSegments)}
  \cup {Flatten(Drop(FinalAnswerSegments, i)) : i \in 1..Len(FinalAnswerSegments)}

PrefixedInputs ==
  {[kind |-> "prefixed", prefix |-> p, base |-> b] : p \in Prefixes, b \in PrefixedBases}

\* What the parser is given: a response written in the tool-use format or in the
\* final-answer format from known parts, a tool-use response with text around its
\* input or after its tool name, or a response with one piece missing.
ParserInputs ==
  {[kind |-> "tool_use", thought |-> t, name |-> BaseName, json |-> BaseJson] :
     t \in Thoughts \cup QuotingThoughts}
  \cup {[kind |-> "tool_use", thought |-> BaseThought, name |-> n, json |-> BaseJson] :
          n \in Names}
  \cup {[kind |-> "tool_use", thought |-> BaseThought, name |-> BaseName, json |-> j] :
          j \in Jsons}
  \cup {[kind |-> "tool_use_extra", name |-> BaseName, free |-> << >>,
          before |-> p, json |-> j, after |-> q] :
          p \in Befores, j \in {BaseJson, NestedJson}, q \in Afters}
  \cup {[kind |-> "tool_use_extra", name |-> n, free |-> x,
          before |-> << >>, json |-> BaseJson, after |-> << >>] :
          n \in {BaseName, <<"a", " ", "a">>}, x \in FreeTexts}
  \cup {[kind |-> "final_answer", thought |-> t, answer |-> BaseAnswer] : t \in Thoughts}
  \cup {[kind |-> "final_answer", thought |-> BaseThought, answer |-> a] : a \in Answers}
  \cup AlteredInputs
  \cup PrefixedInputs
  \cup {[kind |-> "raw", text |-> Flatten(Drop(ToolUseSegments, i))] :
          i \in 1..Len(ToolUseSegments)}
  \cup {[kind |-> "raw", text |-> Flatten(Drop(FinalAnswerSegments, i))] :
          i \in 1..Len(FinalAnswerSegments)}

\* The response text of a parser input.
TextOf(g) ==
  CASE g.kind = "tool_use" -> ToolUseText(g.thought, g.name, g.json)
    [] g.kind = "tool_use_extra" ->
         ToolUseText(BaseThought, g.name \o g.free, g.before \o g.json \o g.after)
    [] g.kind = "final_answer" -> FinalAnswerText(g.thought, g.answer)
    [] g.kind = "altered" -> AlteredText(g)
    [] g.kind = "prefixed" -> g.prefix \o g.base
    [] g.kind = "raw" -> g.text

(***************************************************************************)
(* State.  The notebook's globals (Unset while a name is not bound), and   *)
(* what a run leaves to observe.                                           *)
(***************************************************************************)
VARIABLES
  tools,         \* the list of tools
  tools_str,     \* the catalog text
  tools_map,     \* the registry: name -> tool
  system_prompt, \* the system prompt of the last model call
  prompt,        \* the user prompt of the last model call
  output,        \* the model's last completion
  thought, tool, tool_input, tool_output, final_answer,
  stdout,        \* what the last cell printed
  exc,           \* the exception that ended the last cell, None when it completed
  events,        \* the parser, decoder, registry and tool operations of the last cell
  calls,         \* the calls of wrapped functions so far
  now,           \* the reading of the clock, one tick per call of Tool.invoke
  pc,            \* the cell to run next
  given,         \* the input a parser or tool run was started with
  result         \* the last direct call of a parser or tool operation and its outcome

vars == << tools, tools_str, tools_map, system_prompt, prompt, output, thought, tool, tool_input,
           tool_output, final_answer, stdout, exc, events, calls, now, pc, given,
           result >>

Unset == [unset |-> TRUE]

notebook == << tools, tools_str, tools_map, system_prompt, prompt, thought, tool, tool_input,
               tool_output, final_answer, stdout, exc, events >>

(***************************************************************************)
(* The parser on its own: a response text, and the two extractors applied  *)
(* to it in any order, any number of times.                                *)
(***************************************************************************)
InitParser ==
  /\ given \in ParserInputs
  /\ output = PyStr(TextOf(given))
  /\ tools = Unset /\ tools_str = Unset /\ tools_map = Unset
  /\ system_prompt = Unset /\ prompt = Unset
  /\ thought = Unset /\ tool = Unset /\ tool_input = Unset /\ tool_output = Unset
  /\ final_answer = Unset /\ stdout = Unset /\ exc = None /\ events = << >>
  /\ calls = << >> /\ now = 0 /\ pc = "parser" /\ result = Unset

ApplyExtractToolUse ==
  /\ pc = "parser"
  /\ result' = [call |-> "extract_tool_use", outcome |-> extract_tool_use(output.str)]
  /\ UNCHANGED << notebook, output, calls, now, pc, given >>

ApplyExtractFinalAnswer ==
  /\ pc = "parser"
  /\ result' = [call |-> "extract_final_answer",
                outcome |-> extract_final_answer(output.str)]
  /\ UNCHANGED << notebook, output, calls, now, pc, given >>

NextParser == ApplyExtractToolUse \/ ApplyExtractFinalAnswer

SpecParser == InitParser /\ [][NextParser]_vars

(***************************************************************************)
(* A tool on its own: a tool and an input, and the methods of the tool     *)
(* applied in any order.                                                   *)
(***************************************************************************)
ExtraKey == <<"x">>

InputKeys == {expression, base, exponent, ExtraKey}

InputValues ==
  { PyStr(<<"1", "+", "1">>), PyStr(<<"1", "+">>), PyStr(<<"7">>), PyInt(3) }

\* What a tool is given: a dict over some of the keys, or None.
ToolInputs ==
  {PyDict(d) : d \in UNION {[K -> InputValues] : K \in SUBSET InputKeys}} \cup {None}

Tools == {calculator, current_date, power}

InitTool ==
  /\ given \in [self : Tools, tool_input : ToolInputs]
  /\ tools = Unset /\ tools_str = Unset /\ tools_map = Unset
  /\ system_prompt = Unset /\ prompt = Unset
  /\ output = Unset
  /\ thought = Unset /\ tool = Unset /\ tool_input = Unset /\ tool_output = Unset
  /\ final_answer = Unset /\ stdout = Unset /\ exc = None /\ events = << >>
  /\ calls = << >> /\ now = 0 /\ pc = "tool" /\ result = Unset

\* given.self.invoke(given.tool_input)
ApplyInvoke ==
  /\ pc = "tool"
  /\ now < MaxInvokes
  /\ LET r == invoke(given.self, given.tool_input, now)
     IN  /\ result' = [call |-> "invoke", outcome |-> r.outcome, called |-> r.called]
         /\ calls' = calls \o r.called
  /\ now' = now + 1
  /\ UNCHANGED << notebook, output, pc, given >>

\* given.self.parse_input(given.tool_input)
ApplyParseInput ==
  /\ pc = "tool"
  /\ result' = [call |-> "parse_input",
                outcome |-> parse_input(given.self, given.tool_input)]
  /\ UNCHANGED << notebook, output, calls, now, pc, given >>

\* str(given.self)
ApplyStr ==
  /\ pc = "tool"
  /\ result' = [call |-> "__str__", outcome |-> Return(PyText(__str__(given.self)))]
  /\ UNCHANGED << notebook, output, calls, now, pc, given >>

NextTool == ApplyInvoke \/ ApplyParseInput \/ ApplyStr

SpecTool == InitTool /\ [][NextTool]_vars

(***************************************************************************)
(* The notebook: cells 7 to 18 run in order.  A cell that ends with an     *)
(* uncaught exception leaves what it had assigned, and the next cell runs  *)
(* on that.  The completions of the language model are any of a set of     *)
(* texts.                                                                  *)
(***************************************************************************)
\* The join taken over the items in reverse order.
RECURSIVE JoinReversed(_)
JoinReversed(items) ==
  IF items = << >> THEN << >>
  ELSE IF Len(items) = 1 THEN items[1]
  ELSE JoinReversed(Tail(items)) \o << Lit("\n\n") >> \o items[1]

\* "\n\n".join(items), on texts given by their parts.
RECURSIVE Join(_)
Join(items) ==
  IF items = << >> THEN << >>
  ELSE IF Len(items) = 1 THEN items[1]
  ELSE items[1] \o << Lit("\n\n") >> \o Join(Tail(items))

\* The parts of "{v}" in an f-string.
Format(v) ==
  IF IsStr(v) THEN << Str(v.str) >>
  ELSE IF DOMAIN v = {"parts"} THEN v.parts
  ELSE << Repr(v) >>

\* The registry that keeps the first tool of a name.
ToolsMapFirst(ts) ==
  PyDict([n \in {ts[i].name : i \in 1..Len(ts)} |->
            ts[Min({i \in 1..Len(ts) : ts[i].name = n})]])

\* The registry built without the last tool of the list.
ToolsMapWithoutLast(ts) ==
  PyDict([n \in {ts[i].name : i \in 1..(Len(ts) - 1)} |->
            ts[Max({i \in 1..(Len(ts) - 1) : ts[i].name = n})]])

\* {tool.name: tool for tool in tools}: a later tool replaces an earlier one of
\* its name.
ToolsMap(ts) ==
  PyDict([n \in {ts[i].name : i \in 1..Len(ts)} |->
            ts[Max({i \in 1..Len(ts) : ts[i].name = n})]])

\* A lookup that falls back on some tool of the registry for an unknown name.
get_or_any(map, key) ==
  IF IsStr(key) /\ key.str \in DOMAIN map.dict THEN Return(map.dict[key.str])
  ELSE IF "function" \in DOMAIN key THEN Raise("TypeError", key)
  ELSE Return(map.dict[CHOOSE n \in DOMAIN map.dict : TRUE])

\* tools_map.get(key): the tool of the name, None for any other key.
get(map, key) ==
  IF IsStr(key) /\ key.str \in DOMAIN map.dict THEN Return(map.dict[key.str])
  ELSE IF "function" \in DOMAIN key THEN Raise("TypeError", key)
  ELSE Return(None)

\* The system prompt of cell 7: the catalog and the tool-use format.
SystemPromptToolUse(catalog) ==
  << Lit("You are an AI assistant designed to help users with a variety of tasks.\n\n### Tools ###\n\nYou have access to the following tools:\n") >>
    \o catalog
    \o << Lit("\n\n### Instructions ###\n\nYour goal is to solve the problem you will be provided with\n\n") >>
    \o ToolUseTemplate
    \o << Lit("\n\nYour <input of the tool to use> must be a JSON format with the keyword arguments of <name of the tool to use>") >>

\* The system prompt of cells 11, 14 and 17: with the final-answer format too.
SystemPromptBoth(catalog) ==
  SystemPromptToolUse(catalog)
    \o << Lit("\n\nWhen you know the final answer to the user's query you should respond with:\n"),
          Fence, Lit("\n"),
          Lit("Thought: <thought process on how to respond to the prompt>\n\n"),
          Lit("Final Answer: <response to the prompt>\n"), Fence,
          Lit("\n\nYour <response to the prompt> should be the final answer to the user's query") >>

CostQuery ==
  Lit("Calculate the total raw cost = $549.72 + $6.98 + $41.00 + $35.00 + $552.00 + $76.16 + $29.12.")

DayQuery == Lit("What day do we have?")

\* The follow-up prompt without the observation.
FollowUpPromptNoObservation(query, previous, observation) ==
  << query, Lit("\n\nThis was your previous work:\n\n") >> \o Format(previous)

\* f"{query}\n\nThis was your previous work:\n\n{output}\n\nObservation: Tool Output: {tool_output}"
FollowUpPrompt(query, previous, observation) ==
  << query, Lit("\n\nThis was your previous work:\n\n") >>
    \o Format(previous)
    \o << Lit("\n\nObservation: Tool Output: ") >>
    \o Format(observation)

Search == <<"S","e","a","r","c","h">>

\* Texts the model may answer with: tool uses (a good input, a wrong-typed
\* input, an expression that does not evaluate, text that is no JSON, a tool
\* without input, a tool that does not exist), a final answer, and plain text.
Completions ==
  { ToolUseText(<<"a">>, calculator.name,
                <<"{","\"">> \o expression \o <<"\"",":"," ","\"","1","+","1","\"","}">>),
    ToolUseText(<<"a">>, calculator.name,
                <<"{","\"">> \o expression \o <<"\"",":"," ","3","}">>),
    ToolUseText(<<"a">>, calculator.name,
                <<"{","\"">> \o expression \o <<"\"",":"," ","\"","1","+","\"","}">>),
    ToolUseText(<<"a">>, calculator.name, <<"{","a","}">>),
    ToolUseText(<<"a">>, current_date.name, <<"{","}">>),
    ToolUseText(<<"a">>, Search, <<"{","}">>),
    FinalAnswerText(<<"a">>, <<"a">>),
    <<"a">> }

\* A tool without input that is given the name of the calculator.
date_as_calculator == [current_date EXCEPT !.name = calculator.name]

\* The lists of tools the notebook is run with: its own, a shorter one, and one
\* with two tools of one name.
ToolLists ==
  { << calculator, current_date >>,
    << current_date >>,
    << calculator, date_as_calculator, current_date >> }

Init ==
  /\ given \in [tools : ToolLists]
  /\ tools = Unset /\ tools_str = Unset /\ tools_map = Unset
  /\ system_prompt = Unset /\ prompt = Unset /\ output = Unset
  /\ thought = Unset /\ tool = Unset /\ tool_input = Unset /\ tool_output = Unset
  /\ final_answer = Unset /\ stdout = Unset /\ exc = None /\ events = << >>
  /\ calls = << >> /\ now = 0 /\ pc = "cell7" /\ result = Unset

\* llm.get_completion([system, user]) and print(output), then on to cell next.
GetCompletion(system, user, next) ==
  /\ system_prompt' = system
  /\ prompt' = user
  /\ \E c \in Completions :
       /\ output' = PyStr(c)
       /\ events' = << [op |-> "get_completion", system |-> system, user |-> user,
                        outcome |-> Return(PyStr(c))] >>
  /\ stdout' = << output' >>
  /\ exc' = None
  /\ pc' = next

\* Cell 7: the list of tools, the catalog, the registry, the first model call.
Cell7 ==
  /\ pc = "cell7"
  /\ tools' = given.tools
  /\ tools_str' = PyText(Join([i \in 1..Len(given.tools) |-> __str__(given.tools[i])]))
  /\ tools_map' = ToolsMap(given.tools)
  /\ GetCompletion(PyText(SystemPromptToolUse(tools_str'.parts)), PyText(<< CostQuery >>),
                   "cell9")
  /\ UNCHANGED << thought, tool, tool_input, tool_output, final_answer, calls, now,
                  given, result >>

\* Cells 9 and 15: extract_tool_use(output) inside try/except ValueError.
ExtractToolUseCell(next) ==
  LET r == extract_tool_use(output.str)
  IN  /\ events' = << [op |-> "extract_tool_use", arg |-> output, outcome |-> r] >>
      /\ IF r.ok
         THEN /\ thought' = PyStr(r.value[1])
              /\ tool' = PyStr(r.value[2])
              /\ tool_input' = PyStr(r.value[3])
              /\ stdout' = << PyText(<< Lit("Thought: "), Str(r.value[1]) >>),
                              PyText(<< Lit("Tool: "), Str(r.value[2]) >>),
                              PyText(<< Lit("Tool Input: "), Str(r.value[3]) >>) >>
         ELSE /\ stdout' = << PyText(r.message) >>
              /\ UNCHANGED << thought, tool, tool_input >>
      /\ exc' = None
      /\ pc' = next
      /\ UNCHANGED << tools, tools_str, tools_map, system_prompt, prompt, output,
                      tool_output, final_answer, calls, now, given, result >>

Cell9 == pc = "cell9" /\ ExtractToolUseCell("cell10")

\* The cell of the invocation with tools_map.pop(tool) for tools_map.get(tool):
\* the tool that is looked up leaves the registry.
InvokeCellPop(next) ==
  /\ pc' = next
  /\ UNCHANGED << tools, tools_str, system_prompt, prompt, output, thought,
                  final_answer, given, result >>
  /\ tools_map' = IF IsStr(tool) /\ tool.str \in DOMAIN tools_map.dict
                  THEN PyDict([n \in DOMAIN tools_map.dict \ {tool.str} |->
                                 tools_map.dict[n]])
                  ELSE tools_map
  /\ IF tool_input = Unset
     THEN /\ exc' = Raise("NameError", "tool_input")
          /\ events' = << >> /\ stdout' = << >>
          /\ UNCHANGED << tool, tool_input, tool_output, calls, now >>
     ELSE
     LET decoded == loads(tool_input)
         loaded == [op |-> "loads", arg |-> tool_input, outcome |-> decoded]
     IN  IF ~decoded.ok
         THEN /\ exc' = decoded
              /\ events' = << loaded >> /\ stdout' = << >>
              /\ UNCHANGED << tool, tool_input, tool_output, calls, now >>
         ELSE
         LET found == get(tools_map, tool)
             looked == [op |-> "get", arg |-> tool, outcome |-> found]
         IN  /\ tool_input' = decoded.value
             /\ IF ~found.ok
                THEN /\ exc' = found
                     /\ events' = << loaded, looked >> /\ stdout' = << >>
                     /\ UNCHANGED << tool, tool_output, calls, now >>
                ELSE
                /\ tool' = found.value
                /\ IF found.value = None
                   THEN /\ exc' = Raise("AttributeError", "invoke")
                        /\ events' = << loaded, looked >> /\ stdout' = << >>
                        /\ UNCHANGED << tool_output, calls, now >>
                   ELSE
                   LET r == invoke(found.value, decoded.value, now)
                   IN  /\ events' = << loaded, looked,
                                       [op |-> "invoke", self |-> found.value,
                                        arg |-> decoded.value, outcome |-> r.outcome] >>
                       /\ calls' = calls \o r.called
                       /\ now' = now + 1
                       /\ IF r.outcome.ok
                          THEN /\ tool_output' = r.outcome.value
                               /\ stdout' = << r.outcome.value >>
                               /\ exc' = None
                          ELSE /\ exc' = r.outcome
                               /\ stdout' = << >>
                               /\ UNCHANGED tool_output

\* Cells 10 and 16: json.loads, tools_map.get, tool.invoke, print.
InvokeCell(next) ==
  /\ pc' = next
  /\ UNCHANGED << tools, tools_str, tools_map, system_prompt, prompt, output, thought,
                  final_answer, given, result >>
  /\ IF tool_input = Unset
     THEN /\ exc' = Raise("NameError", "tool_input")
          /\ events' = << >> /\ stdout' = << >>
          /\ UNCHANGED << tool, tool_input, tool_output, calls, now >>
     ELSE
     LET decoded == loads(tool_input)
         loaded == [op |-> "loads", arg |-> tool_input, outcome |-> decoded]
     IN  IF ~decoded.ok
         THEN /\ exc' = decoded
              /\ events' = << loaded >> /\ stdout' = << >>
              /\ UNCHANGED << tool, tool_input, tool_output, calls, now >>
         ELSE
         LET found == get(tools_map, tool)
             looked == [op |-> "get", arg |-> tool, outcome |-> found]
         IN  /\ tool_input' = decoded.value
             /\ IF ~found.ok
                THEN /\ exc' = found
                     /\ events' = << loaded, looked >> /\ stdout' = << >>
                     /\ UNCHANGED << tool, tool_output, calls, now >>
                ELSE
                /\ tool' = found.value
                /\ IF found.value = None
                   THEN /\ exc' = Raise("AttributeError", "invoke")
                        /\ events' = << loaded, looked >> /\ stdout' = << >>
                        /\ UNCHANGED << tool_output, calls, now >>
                   ELSE
                   LET r == invoke(found.value, decoded.value, now)
                   IN  /\ events' = << loaded, looked,
                                       [op |-> "invoke", self |-> found.value,
                                        arg |-> decoded.value, outcome |-> r.outcome] >>
                       /\ calls' = calls \o r.called
                       /\ now' = now + 1
                       /\ IF r.outcome.ok
                          THEN /\ tool_output' = r.outcome.value
                               /\ stdout' = << r.outcome.value >>
                               /\ exc' = None
                          ELSE /\ exc' = r.outcome
                               /\ stdout' = << >>
                               /\ UNCHANGED tool_output

Cell10 == pc = "cell10" /\ InvokeCell("cell11")

\* Cells 11 and 17: the follow-up prompt with the previous output and the
\* observation, and the next model call.
FollowUpCell(query, next) ==
  /\ UNCHANGED << tools, tools_str, tools_map, thought, tool, tool_input, tool_output,
                  final_answer, calls, now, given, result >>
  /\ IF tool_output = Unset
     THEN /\ system_prompt' = PyText(SystemPromptBoth(tools_str.parts))
          /\ exc' = Raise("NameError", "tool_output")
          /\ events' = << >> /\ stdout' = << >>
          /\ pc' = next
          /\ UNCHANGED << prompt, output >>
     ELSE GetCompletion(PyText(SystemPromptBoth(tools_str.parts)),
                        PyText(FollowUpPrompt(query, output, tool_output)), next)

Cell11 == pc = "cell11" /\ FollowUpCell(CostQuery, "cell13")

\* Cells 13 and 18: extract_final_answer(output) inside try/except ValueError.
ExtractFinalAnswerCell(next) ==
  LET r == extract_final_answer(output.str)
  IN  /\ events' = << [op |-> "extract_final_answer", arg |-> output, outcome |-> r] >>
      /\ IF r.ok
         THEN /\ thought' = PyStr(r.value[1])
              /\ final_answer' = PyStr(r.value[2])
              /\ stdout' = << PyText(<< Lit("Thought: "), Str(r.value[1]) >>),
                              PyText(<< Lit("Final Answer: "), Str(r.value[2]) >>) >>
         ELSE /\ stdout' = << PyText(r.message) >>
              /\ UNCHANGED << thought, final_answer >>
      /\ exc' = None
      /\ pc' = next
      /\ UNCHANGED << tools, tools_str, tools_map, system_prompt, prompt, output, tool,
                      tool_input, tool_output, calls, now, given, result >>

Cell13 == pc = "cell13" /\ ExtractFinalAnswerCell("cell14")

\* Cell 14: the model call of the second query.
Cell14 ==
  /\ pc = "cell14"
  /\ GetCompletion(PyText(SystemPromptBoth(tools_str.parts)), PyText(<< DayQuery >>),
                   "cell15")
  /\ UNCHANGED << tools, tools_str, tools_map, thought, tool, tool_input, tool_output,
                  final_answer, calls, now, given, result >>

Cell15 == pc = "cell15" /\ ExtractToolUseCell("cell16")

Cell16 == pc = "cell16" /\ InvokeCell("cell17")

Cell17 == pc = "cell17" /\ FollowUpCell(DayQuery, "cell18")

Cell18 == pc = "cell18" /\ ExtractFinalAnswerCell("done")

Next ==
  \/ Cell7 \/ Cell9 \/ Cell10 \/ Cell11 \/ Cell13
  \/ Cell14 \/ Cell15 \/ Cell16 \/ Cell17 \/ Cell18

Spec == Init /\ [][Next]_vars

(***************************************************************************)
(* Properties of the parser (SpecParser).                                  *)
(***************************************************************************)
\* The text is a tool name of the pattern: one or more of [a-zA-Z0-9_ ].
IsName(n) == n # << >> /\ \A i \in 1..Len(n) : n[i] \in NameChar

\* The text starts with "{" and ends with "}".
IsObjectText(j) == Len(j) >= 2 /\ j[1] = "{" /\ j[Len(j)] = "}"

\* The thought has a newline directly followed by "Tool: " and a name character.
HasToolLine(t) ==
  \E i \in 1..Len(t) :
    /\ IsAt(t, <<"\n">> \o ToolMarker, i)
    /\ i + 1 + Len(ToolMarker) <= Len(t)
    /\ t[i + 1 + Len(ToolMarker)] \in NameChar

\* The thought has a newline directly followed by "Final Answer:".
HasFinalAnswerLine(t) == Contains(t, <<"\n">> \o FinalAnswerMarker)

HasPart(parts, x) == \E i \in 1..Len(parts) : parts[i] = x

\* extract_tool_use was applied to a response written in the tool-use format.
ParsedToolUse ==
  /\ pc = "parser" /\ result # Unset /\ result.call = "extract_tool_use"
  /\ given.kind = "tool_use"

\* extract_final_answer was applied to a response written in the final-answer format.
ParsedFinalAnswer ==
  /\ pc = "parser" /\ result # Unset /\ result.call = "extract_final_answer"
  /\ given.kind = "final_answer"

\* C1 as stated: for every trimmed thought, every tool name of letters, digits,
\* underscore and space, and every JSON-object text, extract_tool_use applied to
\* "Thought: <thought>\n\nTool: <name>\n\nTool Input: <json>" returns exactly
\* (thought, name, json).
C1_RoundTripAsStated ==
  (/\ ParsedToolUse
   /\ Trimmed(given.thought) /\ IsName(given.name) /\ IsObjectText(given.json))
  => result.outcome = Return(<< given.thought, given.name, given.json >>)

\* C1 amended: the round trip of the tool-use extractor holds for every trimmed
\* thought that has no newline directly followed by "Tool: " and a name
\* character, every non-empty tool name of letters, digits, underscore and space
\* that neither starts nor ends with a space, and every text that starts with "{"
\* and ends with "}": extract_tool_use returns exactly (thought, name, json).
C1_RoundTrip ==
  (/\ ParsedToolUse
   /\ Trimmed(given.thought) /\ ~HasToolLine(given.thought)
   /\ IsName(given.name) /\ Trimmed(given.name)
   /\ IsObjectText(given.json))
  => result.outcome = Return(<< given.thought, given.name, given.json >>)

\* A thought with a line that starts with "Tool: " but names no tool, parsed back.
C1_Witness ==
  /\ ParsedToolUse
  /\ Contains(given.thought, <<"\n">> \o ToolMarker)
  /\ ~HasToolLine(given.thought)
  /\ result.outcome = Return(<< given.thought, given.name, given.json >>)

\* C2 as stated: for every trimmed thought and every trimmed answer (possibly
\* multi-line), extract_final_answer applied to
\* "Thought: <thought>\n\nFinal Answer: <answer>" returns exactly (thought, answer).
C2_RoundTripAsStated ==
  (ParsedFinalAnswer /\ Trimmed(given.thought) /\ Trimmed(given.answer))
  => result.outcome = Return(<< given.thought, given.answer >>)

\* C2 amended: the round trip of the final-answer extractor holds for every
\* trimmed thought that has no newline directly followed by "Final Answer:" and
\* every trimmed answer (possibly multi-line): extract_final_answer returns
\* exactly (thought, answer).
C2_RoundTrip ==
  (/\ ParsedFinalAnswer
   /\ Trimmed(given.thought) /\ ~HasFinalAnswerLine(given.thought)
   /\ Trimmed(given.answer))
  => result.outcome = Return(<< given.thought, given.answer >>)

\* A multi-line answer that holds the marker "Final Answer:" itself, parsed back.
C2_Witness ==
  /\ ParsedFinalAnswer
  /\ HasFinalAnswerLine(given.answer)
  /\ result.outcome = Return(<< given.thought, given.answer >>)

\* C6: when the output does not match the tool-use template (one of the markers
\* "Thought: ", "Tool: ", "Tool Input: " is missing), extract_tool_use returns no
\* triple; and whenever it returns none it fails with a ValueError whose message
\* holds the raw output unchanged, the instruction to correct the response and
\* the template with the lines Thought:, Tool: and Tool Input:.
C6_MalformedToolUse ==
  (pc = "parser" /\ result # Unset /\ result.call = "extract_tool_use")
  => /\ ( \/ ~Contains(output.str, ThoughtMarker)
          \/ ~Contains(output.str, ToolMarker)
          \/ ~Contains(output.str, ToolInputMarker) ) => ~result.outcome.ok
     /\ ~result.outcome.ok =>
          /\ result.outcome.type = "ValueError"
          /\ HasPart(result.outcome.message, Str(output.str))
          /\ HasPart(result.outcome.message, Lit("You need to correct your response\n\n"))
          /\ HasPart(result.outcome.message,
                     Lit("Thought: <thought process on how to respond to the prompt>\n\n"))
          /\ HasPart(result.outcome.message, Lit("Tool: <name of the tool to use>\n\n"))
          /\ HasPart(result.outcome.message,
                     Lit("Tool Input: <input of the tool to use>\n"))

\* A response without the marker "Tool: ", rejected with the ValueError.
C6_Witness ==
  /\ pc = "parser" /\ result # Unset /\ result.call = "extract_tool_use"
  /\ given.kind = "raw"
  /\ Contains(output.str, ThoughtMarker)
  /\ ~Contains(output.str, ToolMarker)
  /\ Contains(output.str, ToolInputMarker)
  /\ ~result.outcome.ok /\ result.outcome.type = "ValueError"

\* C7: when the output does not match the final-answer template (the marker
\* "Thought: " or "Final Answer:" is missing), extract_final_answer returns no
\* pair; and whenever it returns none it fails with an error of the type that
\* extract_tool_use raises, a ValueError, whose message holds the raw output
\* unchanged and the template with the lines Thought: and Final Answer:.
C7_MalformedFinalAnswer ==
  (pc = "parser" /\ result # Unset /\ result.call = "extract_final_answer")
  => /\ ( \/ ~Contains(output.str, ThoughtMarker)
          \/ ~Contains(output.str, FinalAnswerMarker) ) => ~result.outcome.ok
     /\ ~result.outcome.ok =>
          /\ result.outcome.type = "ValueError"
          /\ result.outcome.type = extract_tool_use(<< >>).type
          /\ HasPart(result.outcome.message, Str(output.str))
          /\ HasPart(result.outcome.message,
                     Lit("Thought: <thought process on how to respond to the prompt>\n\n"))
          /\ HasPart(result.outcome.message, Lit("Final Answer: <response to the prompt>\n"))
          /\ ~HasPart(result.outcome.message, Lit("Tool: <name of the tool to use>\n\n"))

\* A response without the marker "Final Answer:", rejected with the ValueError.
C7_Witness ==
  /\ pc = "parser" /\ result # Unset /\ result.call = "extract_final_answer"
  /\ Contains(output.str, ThoughtMarker)
  /\ ~Contains(output.str, FinalAnswerMarker)
  /\ ~result.outcome.ok /\ result.outcome.type = "ValueError"

\* C9 as stated: if the tool name written after "Tool: " has a character other
\* than a letter, digit, underscore or space, extract_tool_use does not match; it
\* never succeeds with a shortened or altered name.
C9_OtherCharactersRejected ==
  (ParsedToolUse /\ \E i \in 1..Len(given.name) : given.name[i] \notin NameChar)
  => ~result.outcome.ok

(***************************************************************************)
(* Properties of a tool (SpecTool).                                        *)
(***************************************************************************)
\* A required field of the schema is not a key of the input.
MissesRequired(schema, input) ==
  /\ IsDict(input)
  /\ \E i \in 1..Len(schema.fields) :
       schema.fields[i].required /\ schema.fields[i].name \notin DOMAIN input.dict

\* The values a field type takes: a str field a str, an int field an int or a
\* text of digits.
Accepts(type, v) ==
  IF type = "str" THEN IsStr(v) ELSE IsInt(v) \/ (IsStr(v) /\ IsDigits(v.str))

\* The input has a value that the type of its field does not take.
WrongTyped(schema, input) ==
  /\ IsDict(input)
  /\ \E i \in 1..Len(schema.fields) :
       /\ schema.fields[i].name \in DOMAIN input.dict
       /\ ~Accepts(schema.fields[i].type, input.dict[schema.fields[i].name])

\* invoke was applied to a tool with an argument schema.
InvokedWithSchema ==
  /\ pc = "tool" /\ result # Unset /\ result.call = "invoke"
  /\ given.self.args_schema # None

\* C3: for a tool with an argument schema, when the input misses a required
\* field or has a wrong-typed field, invoke does not raise: it returns a text
\* that holds the tool name, the original input, the validation error, the
\* instruction to correct the response and the tool's input schema; the wrapped
\* function is not called.
C3_ValidationFailureIsText ==
  (/\ InvokedWithSchema
   /\ \/ MissesRequired(given.self.args_schema, given.tool_input)
      \/ WrongTyped(given.self.args_schema, given.tool_input))
  => /\ result.outcome.ok
     /\ DOMAIN result.outcome.value = {"parts"}
     /\ LET text == result.outcome.value.parts
        IN  /\ HasPart(text, Str(given.self.name))
            /\ HasPart(text, Repr(given.tool_input))
            /\ \E i \in 1..Len(text) :
                 /\ DOMAIN text[i] = {"repr"}
                 /\ "type" \in DOMAIN text[i].repr
                 /\ text[i].repr.type = "ValidationError"
            /\ HasPart(text, Lit("You need to correct your response"))
            /\ HasPart(text, Repr(Properties(given.self.args_schema)))
     /\ result.called = << >>

\* An input with every required field and a wrong-typed value, answered by a text.
C3_Witness ==
  /\ InvokedWithSchema
  /\ ~MissesRequired(given.self.args_schema, given.tool_input)
  /\ WrongTyped(given.self.args_schema, given.tool_input)
  /\ result.outcome.ok
  /\ result.called = << >>

\* C4: for a tool with an argument schema and an input that passes validation,
\* invoke calls the wrapped function exactly once, with exactly the keys that
\* the schema declares and the input has: undeclared keys of the input are
\* dropped, declared keys absent from the input are not passed.
C4_CallsWithDeclaredPresentKeys ==
  (/\ InvokedWithSchema
   /\ IsDict(given.tool_input)
   /\ ~MissesRequired(given.self.args_schema, given.tool_input)
   /\ ~WrongTyped(given.self.args_schema, given.tool_input))
  => /\ Len(result.called) = 1
     /\ result.called[1].function = given.self.function
     /\ DOMAIN result.called[1].kwargs
          = FieldNames(given.self.args_schema) \cap DOMAIN given.tool_input.dict

\* A valid input with an undeclared key and without the optional field: the
\* function is called with the required field alone.
C4_Witness ==
  /\ InvokedWithSchema
  /\ given.self = power
  /\ IsDict(given.tool_input)
  /\ ExtraKey \in DOMAIN given.tool_input.dict
  /\ exponent \notin DOMAIN given.tool_input.dict
  /\ Len(result.called) = 1
  /\ DOMAIN result.called[1].kwargs = {base}

\* C5: for a tool without an argument schema, invoke calls the wrapped function
\* with no arguments and returns its result without error, for every input: the
\* input is ignored.
C5_NoSchemaCallsWithoutArguments ==
  (/\ pc = "tool" /\ result # Unset /\ result.call = "invoke"
   /\ given.self.args_schema = None)
  => /\ result.called = << [function |-> given.self.function, kwargs |-> EmptyDict] >>
     /\ result.outcome.ok
     /\ result.outcome = Body(given.self.function, EmptyDict, now - 1)

\* A tool without a schema invoked with a dict that has keys.
C5_Witness ==
  /\ pc = "tool" /\ result # Unset /\ result.call = "invoke"
  /\ given.self.args_schema = None
  /\ IsDict(given.tool_input) /\ DOMAIN given.tool_input.dict # {}
  /\ result.outcome.ok
  /\ Len(result.called) = 1

\* C10: the rendered line of a tool is "- Tool Name: <name>, Tool Description:
\* <description>, Tool Input: <arguments>", the three labels literal and in this
\* order; <arguments> lists exactly the field names the schema declares, and is
\* None when the tool has no schema.
C10_RenderedLine ==
  (pc = "tool" /\ result # Unset /\ result.call = "__str__")
  => LET line == result.outcome.value.parts
     IN  /\ Len(line) = 6
         /\ line[1] = Lit("- Tool Name: ")
         /\ line[2] = Str(given.self.name)
         /\ line[3] = Lit(", Tool Description: ")
         /\ line[4] = Str(given.self.description)
         /\ line[5] = Lit(", Tool Input: ")
         /\ DOMAIN line[6] = {"repr"}
         /\ IF given.self.args_schema = None
            THEN line[6].repr = None
            ELSE /\ IsDict(line[6].repr)
                 /\ DOMAIN line[6].repr.dict = FieldNames(given.self.args_schema)

\* The line of a tool whose schema has a required and an optional field.
C10_Witness ==
  /\ pc = "tool" /\ result # Unset /\ result.call = "__str__"
  /\ given.self = power
  /\ DOMAIN result.outcome.value.parts[6].repr.dict = {base, exponent}

(***************************************************************************)
(* Properties of the notebook (Spec).                                      *)
(***************************************************************************)
\* C8 as stated: resolving a tool name that is not a key of the registry signals
\* an error to the caller at the lookup itself: the lookup never yields a tool
\* or an empty value for an absent name, and no tool is invoked.
C8_UnknownToolSignalled ==
  \A i \in 1..Len(events) :
    (/\ events[i].op = "get"
     /\ ~(IsStr(events[i].arg) /\ events[i].arg.str \in DOMAIN tools_map.dict))
    => ~events[i].outcome.ok


\* The parts of a rendered tool line.
LineLen == Len(__str__(calculator))

\* C11: the catalog text is the rendered lines of all tools joined by a blank
\* line, one line per tool, in the order in which the tools were given.
C11_CatalogInOrder ==
  tools_str # Unset =>
    LET n == Len(tools)
        text == tools_str.parts
    IN  /\ Len(text) = n * LineLen + (n - 1)
        /\ \A i \in 1..n :
             SubSeq(text, (i - 1) * (LineLen + 1) + 1, (i - 1) * (LineLen + 1) + LineLen)
               = __str__(tools[i])
        /\ \A i \in 1..(n - 1) : text[i * (LineLen + 1)] = Lit("\n\n")

\* The catalog of a list of three tools whose first and last lines differ.
C11_Witness ==
  /\ tools_str # Unset
  /\ Len(tools) = 3
  /\ tools[1] # tools[3]
  /\ SubSeq(tools_str.parts, 1, LineLen) = __str__(tools[1])

\* C12: parse_input on a tool with a schema fails with a validation error, and
\* returns no mapping, whenever the raw input misses a required field or has a
\* wrong-typed value; the error reaches the caller of parse_input, and names
\* only fields that are missing or wrong-typed, with the input of each.
C12_ParseInputRaises ==
  (/\ pc = "tool" /\ result # Unset /\ result.call = "parse_input"
   /\ given.self.args_schema # None
   /\ \/ MissesRequired(given.self.args_schema, given.tool_input)
      \/ WrongTyped(given.self.args_schema, given.tool_input))
  => /\ ~result.outcome.ok
     /\ result.outcome.type = "ValidationError"
     /\ result.outcome.message.errors # << >>
     /\ \A i \in 1..Len(result.outcome.message.errors) :
          LET e == result.outcome.message.errors[i]
              f == FieldOf(given.self.args_schema, e.loc)
          IN  /\ e.loc \in FieldNames(given.self.args_schema)
              /\ IF e.loc \in DOMAIN given.tool_input.dict
                 THEN /\ ~Accepts(f.type, given.tool_input.dict[e.loc])
                      /\ e.input = given.tool_input.dict[e.loc]
                 ELSE f.required /\ e.type = "missing" /\ e.input = given.tool_input

\* An input without a required field and with a wrong-typed optional one: both
\* are reported.
C12_Witness ==
  /\ pc = "tool" /\ result # Unset /\ result.call = "parse_input"
  /\ given.self = power
  /\ MissesRequired(given.self.args_schema, given.tool_input)
  /\ WrongTyped(given.self.args_schema, given.tool_input)
  /\ ~result.outcome.ok
  /\ Len(result.outcome.message.errors) = 2

\* C14 as stated: for every tool and every input, invoke ends by returning a
\* value (the result of the function or a corrective text), also when the
\* wrapped function itself fails on a validated input; no failure of invoke is
\* raised to the caller.
C14_InvokeAlwaysReturns ==
  (pc = "tool" /\ result # Unset /\ result.call = "invoke") => result.outcome.ok

\* The first position from i on at which the literal stands in o.
FirstAt(o, lit, i) == Min({j \in i..Len(o) : IsAt(o, lit, j)})

\* The position of the newline before the first "Tool: " line that follows the
\* first "Thought: " and names a tool.
ToolLine(o) ==
  Min({j \in (FirstAt(o, ThoughtMarker, 1) + Len(ThoughtMarker))..Len(o) :
         /\ IsAt(o, <<"\n">> \o ToolMarker, j)
         /\ j + 1 + Len(ToolMarker) <= Len(o)
         /\ o[j + 1 + Len(ToolMarker)] \in NameChar})

\* The position after the first "Tool Input: " marker that follows the tool line.
AfterToolInputMarker(o) ==
  FirstAt(o, <<"\n">> \o ToolInputMarker, ToolLine(o) + 1) + 1 + Len(ToolInputMarker)

\* C15: on a successful match the tool input returned by extract_tool_use is the
\* text of the output from the first "{" after the "Tool Input: " marker to the
\* last "}" of the whole output: it starts with "{" and ends with "}", nested
\* braces are returned whole, and text after the last "}" is dropped.
C15_InputIsFirstToLastBrace ==
  (/\ pc = "parser" /\ result # Unset /\ result.call = "extract_tool_use"
   /\ result.outcome.ok)
  => LET o == output.str
         input == result.outcome.value[3]
         first == FirstAt(o, <<"{">>, AfterToolInputMarker(o))
         last == Max({j \in 1..Len(o) : o[j] = "}"})
     IN  /\ input = SubSeq(o, first, last)
         /\ input[1] = "{" /\ input[Len(input)] = "}"

\* A nested object with text before it and text without "}" after it: the
\* object is returned whole and the text after it is dropped.
C15_Witness ==
  /\ pc = "parser" /\ result # Unset /\ result.call = "extract_tool_use"
  /\ given.kind = "tool_use_extra"
  /\ given.json = NestedJson
  /\ given.before # << >> /\ given.after # << >>
  /\ ~Contains(given.after, <<"}">>) /\ ~Contains(given.before, <<"{">>)
  /\ result.outcome.ok
  /\ result.outcome.value[3] = given.json

\* C16: building the registry from a list in which two tools have the same
\* name does not fail: the registry has one entry for each name, mapped to the
\* tool that comes last in the list under that name, and a lookup of the name
\* returns that tool, never the earlier one.
C16_LastOfNameWins ==
  tools_map # Unset =>
    /\ pc = "cell9" => exc = None
    /\ DOMAIN tools_map.dict = {tools[i].name : i \in 1..Len(tools)}
    /\ \A i \in 1..Len(tools) :
         tools_map.dict[tools[i].name]
           = tools[Max({j \in 1..Len(tools) : tools[j].name = tools[i].name})]
    /\ \A e \in 1..Len(events) :
         (/\ events[e].op = "get" /\ IsStr(events[e].arg)
          /\ events[e].arg.str \in DOMAIN tools_map.dict)
         => \E i \in 1..Len(tools) :
              /\ events[e].outcome = Return(tools[i])
              /\ \A j \in (i + 1)..Len(tools) : tools[j].name # tools[i].name

\* Two tools named Calculator in the list: the lookup of the name returned the
\* second one.
C16_Witness ==
  /\ tools_map # Unset
  /\ Len(tools) >= 2
  /\ tools[1].name = tools[2].name /\ tools[1] # tools[2]
  /\ \E e \in 1..Len(events) :
       /\ events[e].op = "get"
       /\ events[e].arg = PyStr(tools[1].name)
       /\ events[e].outcome = Return(tools[2])

\* extract_tool_use was applied to a response with free text after the tool name.
ParsedWithFreeText ==
  /\ pc = "parser" /\ result # Unset /\ result.call = "extract_tool_use"
  /\ given.kind = "tool_use_extra"
  /\ given.free # << >>
  /\ given.before = << >> /\ given.after = << >>

\* What extract_tool_use returns for the response without the free text.
WithoutFreeText == extract_tool_use(ToolUseText(BaseThought, given.name, given.json))

\* In the text a "{" follows a newline directly followed by "Tool Input: ".
HasInputLineWithBrace(x) ==
  \E i \in 1..Len(x) :
    /\ IsAt(x, <<"\n">> \o ToolInputMarker, i)
    /\ \E j \in (i + 1 + Len(ToolInputMarker))..Len(x) : x[j] = "{"

C18_AnswerIsRestOfOutput ==
  (/\ pc = "parser" /\ result # Unset /\ result.call = "extract_final_answer"
   /\ result.outcome.ok)
  => LET o == output.str
         marker == FirstAt(o, <<"\n">> \o FinalAnswerMarker,
                           FirstAt(o, ThoughtMarker, 1) + Len(ThoughtMarker))
     IN  result.outcome.value[2]
           = strip(SubSeq(o, marker + 1 + Len(FinalAnswerMarker), Len(o)))

\* An answer of two lines that ends with a newline: the inner newline is kept,
\* the outer whitespace is removed.
C18_Witness ==
  /\ ParsedFinalAnswer
  /\ ~Trimmed(given.answer)
  /\ result.outcome.ok
  /\ result.outcome.value[2] = strip(given.answer)
  /\ Contains(result.outcome.value[2], <<"\n">>)

\* The text t holds a brace-delimited substring.
HasBraces(t) == \E i, j \in 1..Len(t) : i < j /\ t[i] = "{" /\ t[j] = "}"

\* The text t has a "Tool: " line that names a tool, later a newline directly
\* followed by "Tool Input: ", and after that marker a "{".
QuotesToolInput(t) ==
  \E i, j, k \in 1..Len(t) :
    /\ IsAt(t, <<"\n">> \o ToolMarker, i)
    /\ i + 1 + Len(ToolMarker) <= Len(t)
    /\ t[i + 1 + Len(ToolMarker)] \in NameChar
    /\ j >= i + 2 + Len(ToolMarker)
    /\ IsAt(t, <<"\n">> \o ToolInputMarker, j)
    /\ k >= j + 1 + Len(ToolInputMarker)
    /\ t[k] = "{"

C19_WitnessUnchanged ==
  /\ ParsedToolUse
  /\ HasBraces(given.thought)
  /\ ~Contains(given.thought, <<"\n">> \o ToolInputMarker)
  /\ result.outcome.ok
  /\ result.outcome.value[3] = given.json

\* C20: the markers of the response formats are matched exactly and
\* case-sensitively: an output whose "Thought:", "Tool:", "Tool Input:" or
\* "Final Answer:" marker differs in letter case or spelling, or whose thought is
\* not followed by at least one newline before the next marker, is rejected as
\* malformed (a ValueError) by the extractor for that format.
C20_MarkersExact ==
  (/\ pc = "parser" /\ result # Unset /\ given.kind = "altered"
   /\ result.call = (IF given.format = "tool_use" THEN "extract_tool_use"
                     ELSE "extract_final_answer"))
  => /\ ~result.outcome.ok
     /\ result.outcome.type = "ValueError"

\* A tool-use response with a space, not a line break, between the thought and
\* a correctly written "Tool: " marker, rejected.
C20_Witness ==
  /\ pc = "parser" /\ result # Unset /\ given.kind = "altered"
  /\ given.format = "tool_use" /\ result.call = "extract_tool_use"
  /\ given.sep = <<" ">> /\ given.m1 = ThoughtMarker /\ given.m2 = ToolMarker
  /\ ~result.outcome.ok /\ result.outcome.type = "ValueError"

\* A final-answer response with the marker written "final answer:", rejected.
C20_WitnessCase ==
  /\ pc = "parser" /\ result # Unset /\ given.kind = "altered"
  /\ given.format = "final_answer" /\ result.call = "extract_final_answer"
  /\ given.m2 = [i \in 1..Len(FinalAnswerMarker) |-> ToLower(FinalAnswerMarker[i])]
  /\ ~result.outcome.ok /\ result.outcome.type = "ValueError"

\* The text s neither starts nor ends with a whitespace character.
NoOuterWhitespace(s) ==
  s = << >> \/ (s[1] \notin Whitespace /\ s[Len(s)] \notin Whitespace)

\* C21: on a successful match, the thought returned by either extractor and the
\* tool name returned by extract_tool_use have no leading or trailing whitespace.
C21_ReturnedTrimmed ==
  (pc = "parser" /\ result # Unset /\ result.outcome.ok)
  => /\ NoOuterWhitespace(result.outcome.value[1])
     /\ result.call = "extract_tool_use" => NoOuterWhitespace(result.outcome.value[2])

\* A tool name written with a space after it: the name is returned without the
\* space.
C21_Witness ==
  /\ ParsedToolUse
  /\ given.name # << >> /\ given.name[Len(given.name)] = " "
  /\ result.outcome.ok
  /\ result.outcome.value[2] # << >>
  /\ NoOuterWhitespace(result.outcome.value[2])
  /\ IsAt(given.name, result.outcome.value[2], 1)

(***************************************************************************)
(* Properties of a run of the notebook (Spec), continued.                  *)
(***************************************************************************)
\* The operations of the last cell, by name.
Ops(es) == [i \in 1..Len(es) |-> es[i].op]

\* C22: in a tool turn the steps happen in the order model output, extraction,
\* decoding of the input text, lookup of the tool by name, invocation, next
\* prompt.  A tool's function runs only in the cell that follows the extraction,
\* only when extract_tool_use succeeded on the current model output, and only
\* with the name and the input extracted from that output; after a failed
\* extraction no function runs for that output, whatever an earlier turn left in
\* the variables.
C22_ToolTurnOrder ==
  [][ /\ pc \in {"cell10", "cell16"} =>
           /\ Ops(events) = << "extract_tool_use" >>
           /\ events[1].arg = output
           /\ events[1].outcome = extract_tool_use(output.str)
           /\ \E n \in 0..3 : Ops(events') = SubSeq(<< "loads", "get", "invoke" >>, 1, n)
           /\ pc' \in {"cell11", "cell17"}
           /\ ~events[1].outcome.ok => calls' = calls
      /\ pc \in {"cell9", "cell15"} => Ops(events) = << "get_completion" >>
      /\ calls' # calls =>
           LET r == extract_tool_use(output.str)
           IN  /\ pc \in {"cell10", "cell16"}
               /\ r.ok
               /\ Ops(events') = << "loads", "get", "invoke" >>
               /\ events'[1].arg = PyStr(r.value[3])
               /\ events'[1].outcome.ok
               /\ events'[2].arg = PyStr(r.value[2])
               /\ r.value[2] \in DOMAIN tools_map.dict
               /\ events'[3].self = tools_map.dict[r.value[2]]
               /\ events'[3].arg = events'[1].outcome.value
               /\ Len(calls') = Len(calls) + 1
               /\ calls'[Len(calls')].function = events'[3].self.function
               /\ DOMAIN calls'[Len(calls')].kwargs \subseteq DOMAIN events'[3].arg.dict
    ]_vars

\* The second tool turn after a first one that ran a function: the extraction
\* failed, the variables still hold the tool and the decoded input of the first
\* turn, and the cell of the invocation ran no function.
C22_Witness ==
  /\ pc = "cell17"
  /\ ~extract_tool_use(output.str).ok
  /\ IsDict(tool_input) /\ "function" \in DOMAIN tool
  /\ Len(calls) = 1
  /\ Ops(events) = << "loads" >> /\ ~events[1].outcome.ok

\* The number of operations named op among es.
Count(es, op) == Cardinality({i \in 1..Len(es) : es[i].op = op})

\* C23: the core never retries by itself.  For one model output the cell of
\* the extraction performs one extraction and nothing else, and the cell that
\* follows performs at most one decoding, one lookup, one invoke and one call of
\* the wrapped function; neither cell calls the model.  After a failed
\* extraction, a failed lookup or a failed validation no wrapped function is
\* called, and nothing is tried a second time.
C23_NoRetry ==
  [][ /\ pc \in {"cell9", "cell15", "cell13", "cell18"} =>
           /\ Len(events') = 1
           /\ events'[1].op \in {"extract_tool_use", "extract_final_answer"}
           /\ UNCHANGED << output, prompt, system_prompt, calls, now >>
      /\ pc \in {"cell10", "cell16"} =>
           /\ \A op \in {"loads", "get", "invoke"} : Count(events', op) <= 1
           /\ Count(events', "get_completion") = 0
           /\ Count(events', "extract_tool_use") = 0
           /\ UNCHANGED << output, prompt, system_prompt >>
           /\ Len(calls') <= Len(calls) + 1
           /\ Count(events', "invoke") = 0 => calls' = calls
           /\ ~extract_tool_use(output.str).ok => calls' = calls
           /\ \A i \in 1..Len(events') :
                /\ (events'[i].op = "get" /\ events'[i].outcome = Return(None))
                     => (calls' = calls /\ Count(events', "invoke") = 0)
                /\ (/\ events'[i].op = "invoke"
                    /\ ~parse_input(events'[i].self, events'[i].arg).ok)
                     => calls' = calls
      /\ pc \in {"cell7", "cell11", "cell14", "cell17"} =>
           /\ Count(events', "get_completion") <= 1
           /\ calls' = calls
    ]_vars

\* A tool turn whose input failed validation: one decoding, one lookup, one
\* invoke, its corrective text as the output, and no call of the function.
C23_Witness ==
  /\ pc = "cell11"
  /\ Ops(events) = << "loads", "get", "invoke" >>
  /\ ~parse_input(events[3].self, events[3].arg).ok
  /\ events[3].outcome.ok /\ tool_output = events[3].outcome.value
  /\ calls = << >>

\* C24: the registry and the tools are read-only after construction.  No cell
\* after the one that builds them (extractions, lookups, invokes that succeed or
\* fail, with the parse_input inside them) changes the list of tools, the keys
\* of the registry, the tool mapped to a key or any field of a tool, and the
\* mapping handed to invoke is after the call what it was before.
C24_ReadOnly ==
  [][ pc # "cell7" =>
        /\ tools' = tools /\ tools = given.tools
        /\ tools_map' = tools_map
        /\ DOMAIN tools_map'.dict = {given.tools[i].name : i \in 1..Len(given.tools)}
        /\ \A n \in DOMAIN tools_map'.dict :
             /\ tools_map'.dict[n].name = n
             /\ \E i \in 1..Len(given.tools) : tools_map'.dict[n] = given.tools[i]
        /\ \A i \in 1..Len(events') :
             events'[i].op = "invoke" =>
               /\ events'[i].arg = tool_input'
               /\ events'[i].self = tool'
               /\ tools_map'.dict[tool'.name] = tool'
    ]_vars

\* After two tool turns, the second with an invoke that raised: the registry and
\* the input mapping are what they were.
C24_Witness ==
  /\ pc = "cell17"
  /\ Len(calls) = 2
  /\ Ops(events) = << "loads", "get", "invoke" >>
  /\ ~events[3].outcome.ok
  /\ tool_input = events[3].arg
  /\ tools_map = ToolsMap(given.tools)
  /\ tools = given.tools

C26_AtMostOneExtractor ==
  (pc = "parser" /\ result # Unset /\ result.outcome.ok)
  => IF result.call = "extract_tool_use"
     THEN ~extract_final_answer(output.str).ok
     ELSE ~extract_tool_use(output.str).ok

(***************************************************************************)
(* Properties of the catalog and the registry (Spec).                      *)
(***************************************************************************)
\* The number of tool lines of the catalog.
CatalogLines == (Len(tools_str.parts) + 1) \div (LineLen + 1)

\* The i-th tool line of the catalog.
CatalogLine(i) ==
  SubSeq(tools_str.parts, (i - 1) * (LineLen + 1) + 1, (i - 1) * (LineLen + 1) + LineLen)

\* No two tools of the list ts have the same name.
DistinctNames(ts) ==
  \A i, j \in 1..Len(ts) : ts[i].name = ts[j].name => i = j

\* C27 as stated: for each tool of the list from which the catalog and the
\* registry are built, looking up its name in the registry returns that same
\* tool, the one shown in its catalog line, and the registry has as many entries
\* as the catalog has lines.
C27_CatalogResolvesAsStated ==
  tools_map # Unset =>
    /\ \A i \in 1..Len(tools) :
         /\ get(tools_map, PyStr(tools[i].name)) = Return(tools[i])
         /\ __str__(get(tools_map, PyStr(tools[i].name)).value) = CatalogLine(i)
    /\ Cardinality(DOMAIN tools_map.dict) = CatalogLines

\* C27 amended: when no two tools of the list have the same name, every tool
\* line shown in the catalog can be resolved: looking up the name of each tool of
\* the list returns that same tool, with the description, schema and function
\* shown in its catalog line, and the registry has as many entries as the
\* catalog has lines.
C27_CatalogResolves ==
  (tools_map # Unset /\ DistinctNames(tools)) =>
    /\ \A i \in 1..Len(tools) :
         LET found == get(tools_map, PyStr(tools[i].name))
         IN  /\ found = Return(tools[i])
             /\ __str__(found.value) = CatalogLine(i)
    /\ Cardinality(DOMAIN tools_map.dict) = CatalogLines
    /\ CatalogLines = Len(tools)

\* The notebook's two tools, and a lookup of the first by the name of its
\* catalog line that returned it.
C27_Witness ==
  /\ tools_map # Unset
  /\ Len(tools) = 2 /\ DistinctNames(tools)
  /\ CatalogLines = 2
  /\ CatalogLine(1)[2] = Str(tools[1].name)
  /\ \E e \in 1..Len(events) :
       /\ events[e].op = "get"
       /\ events[e].arg = PyStr(tools[1].name)
       /\ events[e].outcome = Return(tools[1])

(***************************************************************************)
(* Properties of the parser (SpecParser), continued.                       *)
(***************************************************************************)
\* C28: whenever extract_tool_use succeeds, the returned tool name is a
\* non-empty text of letters, digits, underscores and spaces only.
C28_NameNonEmpty ==
  (/\ pc = "parser" /\ result # Unset /\ result.call = "extract_tool_use"
   /\ result.outcome.ok)
  => /\ result.outcome.value[2] # << >>
     /\ \A i \in 1..Len(result.outcome.value[2]) : result.outcome.value[2][i] \in NameChar

\* The outcomes r and q are the same success, or both are failures.
SameOutcome(r, q) == IF r.ok THEN q = r ELSE ~q.ok

\* C29: text that precedes the first occurrence of "Thought: " in the model
\* output does not change the result of either extractor: with the prefix the
\* extractor succeeds or fails as without it and returns the same tuple.
C29_PrefixIgnored ==
  (/\ pc = "parser" /\ result # Unset /\ given.kind = "prefixed"
   /\ ~Contains(given.prefix \o SubSeq(given.base, 1, Len(ThoughtMarker) - 1),
                ThoughtMarker))
  => IF result.call = "extract_tool_use"
     THEN SameOutcome(result.outcome, extract_tool_use(given.base))
     ELSE SameOutcome(result.outcome, extract_final_answer(given.base))

\* A final answer after a prefix of a word and a line of the other format: the
\* pair is the one of the response without the prefix.
C29_Witness ==
  /\ pc = "parser" /\ result # Unset /\ given.kind = "prefixed"
  /\ result.call = "extract_final_answer"
  /\ given.prefix = <<"a", "\n">> \o ToolMarker \o <<"a">>
  /\ given.base = FinalAnswerText(BaseThought, BaseAnswer)
  /\ result.outcome = Return(<< BaseThought, BaseAnswer >>)

=============================================================================
